---- MODULE Spec2Model ----
(***************************************************************************)
(* Cloudflare-Speedtest-Exporter: the cache-gated /metrics handler of      *)
(* src/exporter.py, served by a pool of worker threads.                    *)
(*                                                                         *)
(* Representation.  A float of the program (ping, jitter, Mbit/s) is an    *)
(* integer count of 10^-7 units and stands for the double nearest to that  *)
(* decimal, so 2490 stands for 0.000249 (TLC integers are 32 bits wide,    *)
(* hence the small rates).                                                 *)
(* The tool's standard output is a sequence of chunks: "object" is the     *)
(* text of one JSON object (it ends with '}'), "open" is the text of a     *)
(* JSON object without nested braces that lacks its closing '}', "space"   *)
(* is whitespace, "junk" is any other text without '}', "brace" is a lone  *)
(* '}'.  A JSON object is a function from its keys to the value stored     *)
(* under ['value'] (or to the bare value for "error" and "version").       *)
(* Optional values are sequences: <<>> is None.  A thread's t holds a      *)
(* clock value from its reading to its use, 0 outside.  Log output is no   *)
(* part of the state.                                                      *)
(***************************************************************************)
EXTENDS Integers, Sequences, FiniteSets, TLC

VARIABLES
    clock,          \* datetime.datetime.now(), in seconds
    cache_seconds,  \* SpeedTest.cache_seconds
    cache_until,    \* SpeedTest.cache_until
    gauges,         \* the values held by the objects of Metrics
    pc,             \* per worker thread: position in the handler it runs
    t,              \* per worker thread: the clock value it read last
    result,         \* per worker thread: the local `result` (<<>> is None)
    gi,             \* per worker thread: next statement of update_metrics
    hist            \* history of the requests served one at a time

vars == <<clock, cache_seconds, cache_until, gauges, pc, t, result, gi, hist>>

NumWorkers == 2
MaxClock == 2
MaxCacheSeconds == 1

Workers == 1..NumWorkers

\* os.environ.get('SPEEDTEST_CACHE_FOR', 0)
DefaultCacheFor == 0

(***************************************************************************)
(* utils.py                                                                *)
(***************************************************************************)

RECURSIVE floor_log2(_)
\* The exponent of the leading bit of n >= 1.
floor_log2(n) == IF n < 2 THEN 0 ELSE 1 + floor_log2(n \div 2)

RECURSIVE doublings(_)
\* How many doublings bring y >= 1 to 10^7 or more.
doublings(y) == IF y >= 10^7 THEN 0 ELSE 1 + doublings(2 * y)

\* The binary exponent of the float x * 10^-7, x >= 1.
float_exponent(x) ==
    IF x >= 10^7 THEN floor_log2(x \div (10^7)) ELSE -doublings(x)

RECURSIVE shift_mod(_, _)
\* (r * 2^k) modulo 10^7
shift_mod(r, k) ==
    IF k = 0 \/ r = 0 THEN r ELSE shift_mod((2 * r) % (10^7), k - 1)

\* megabits * (10**6) in IEEE-754 doubles, for megabits = x * 10^-7 > 0 whose
\* exact product with 10^6 is the integer n = x / 10: the float nearest to the
\* decimal is rounded to 53 bits (remainder R of x * 2^k by 10^7), the product
\* is rounded again, and it is a float below n exactly when the first
\* rounding went down by more than half the spacing of the floats below n.
product_below_integer(x) ==
    LET n == x \div 10
        A == float_exponent(x)
        B == floor_log2(n)
        R == shift_mod(x % (10^7), 52 - A)
        e == B - A - 1 - (IF 2^B = n THEN 1 ELSE 0)
    IN  R < 5 * (10^6) /\ R > 10 * (2^e)

\* A value read from the JSON document where a rate is expected: a float
\* (units of 10^-7), None, a string that is no numeral, nan or inf.
Float(x) == [kind |-> "float", units |-> x]
NotFloat(k) == [kind |-> k, units |-> 0]

\* Whether int(megabits * (10**6)) raises: None * int is a TypeError, int()
\* of a repeated string or of nan a ValueError, of inf an OverflowError.
megabits_to_bits_raises(value) == value.kind \in {"None", "str", "nan", "inf"}

\* int(megabits * (10**6)) for a float megabits: int() truncates toward zero.
\* A product that is no integer is nowhere near one (the units are 10^-7),
\* so only an integer product can be truncated to the integer below it.
megabits_to_bits(megabits) ==
    LET x == IF megabits >= 0 THEN megabits ELSE -megabits
        n == x \div (10^7 \div 10^6)
        bits == IF x > 0 /\ x % (10^7 \div 10^6) = 0 /\ product_below_integer(x)
                THEN n - 1 ELSE n
    IN  IF megabits >= 0 THEN bits ELSE -bits

(***************************************************************************)
(* exporter.py: TestResult                                                 *)
(***************************************************************************)

TestResult ==
    [server_city |-> "", server_region |-> "", ping |-> 0, jitter |-> 0,
     download_mbps |-> Float(0), download |-> 0,
     upload_mbps |-> Float(0), upload |-> 0,
     status |-> 0]

\* The JSON documents cfspeedtest is made to print.
FullDoc ==
    ("version" :> 1) @@ ("test_location_city" :> "AMS")
    @@ ("test_location_region" :> "NH") @@ ("latency_ms" :> 123)
    @@ ("Jitter_ms" :> 45) @@ ("90th_percentile_download_speed" :> Float(2490))
    @@ ("90th_percentile_upload_speed" :> Float(19))

ErrorDoc == ("error" :> "socket failed")

ErrorVersionDoc == ("error" :> "socket failed") @@ FullDoc

NoVersionDoc == ("test_location_city" :> "AMS")

MissingFieldDoc ==
    ("version" :> 1) @@ ("test_location_city" :> "AMS")
    @@ ("test_location_region" :> "NH")

\* A rate that is null; a rate that is NaN.
NullRateDoc ==
    ("90th_percentile_download_speed" :> NotFloat("None")) @@ FullDoc

NanRateDoc ==
    ("90th_percentile_upload_speed" :> NotFloat("nan")) @@ FullDoc

\* {} and {"version": 1}
EmptyDoc == <<>>

VersionDoc == ("version" :> 1)

Docs ==
    {FullDoc, ErrorDoc, ErrorVersionDoc, NoVersionDoc, MissingFieldDoc,
     NullRateDoc, NanRateDoc}

Object(d) == [kind |-> "object", data |-> d]
Open(d) == [kind |-> "open", data |-> d]
Space == [kind |-> "space", data |-> <<>>]
Junk == [kind |-> "junk", data |-> <<>>]
Brace == [kind |-> "brace", data |-> <<>>]

\* What cfspeedtest prints when check_output returns ...
Stdouts ==
    {<<>>, <<Junk>>, <<Space>>}
    \cup {<<Object(d)>> : d \in Docs}
    \cup {<<Open(d)>> : d \in {EmptyDoc, ErrorDoc, VersionDoc}}
    \cup {<<Object(FullDoc), Junk>>, <<Junk, Object(FullDoc)>>,
          <<Space, Object(FullDoc)>>, <<Open(ErrorDoc), Space>>,
          <<Open(EmptyDoc), Space>>, <<Open(ErrorDoc), Junk>>}

\* ... and e.output when it exits with a status other than 0.
FailedStdouts == {<<>>, <<Junk>>, <<Object(ErrorDoc)>>}

\* What subprocess.check_output(cmd, timeout=timeout) can do.
ToolOutcomes ==
    {[kind |-> "TimeoutExpired", stdout |-> <<>>]}
    \cup {[kind |-> "CalledProcessError", stdout |-> s] : s \in FailedStdouts}
    \cup {[kind |-> "returned", stdout |-> s] : s \in Stdouts}

\* output.decode().rsplit('}', 1)[0] + "}"
trim_output(output) ==
    LET closing == {i \in 1..Len(output) : output[i].kind \in {"object", "brace"}}
        last == CHOOSE i \in closing : \A j \in closing : j <= i
    IN  IF closing = {} THEN Append(output, Brace) ELSE SubSeq(output, 1, last)

\* The text without the whitespace at its ends.
strip(output) ==
    LET inked == {i \in 1..Len(output) : output[i].kind # "space"}
        first == CHOOSE i \in inked : \A j \in inked : i <= j
        last == CHOOSE i \in inked : \A j \in inked : j <= i
    IN  IF inked = {} THEN <<>> ELSE SubSeq(output, first, last)

\* json.loads(output): <<data>>, or <<>> for json.JSONDecodeError.  The text
\* is JSON when, whitespace at its ends aside, it is one object, or an
\* object lacking its closing brace followed by a brace, with nothing but
\* whitespace between the two.
json_loads(output) ==
    LET text == strip(output) IN
    IF Len(text) = 1 /\ text[1].kind = "object" THEN <<text[1].data>>
    ELSE IF /\ Len(text) >= 2
            /\ text[1].kind = "open"
            /\ text[Len(text)].kind = "brace"
            /\ \A i \in 2..(Len(text) - 1) : text[i].kind = "space"
    THEN <<text[1].data>>
    ELSE <<>>

\* utils.is_json (imported by exporter.py, its text is not at hand): whether
\* the output is JSON; it raises nothing.
is_json(output) == json_loads(output) # <<>>

\* The assignments of _parse_results under `if "version" in data`, in order.
ParseSteps ==
    <<[field |-> "server_city", key |-> "test_location_city"],
      [field |-> "server_region", key |-> "test_location_region"],
      [field |-> "ping", key |-> "latency_ms"],
      [field |-> "jitter", key |-> "Jitter_ms"],
      [field |-> "download_mbps", key |-> "90th_percentile_download_speed"],
      [field |-> "upload_mbps", key |-> "90th_percentile_upload_speed"]>>

RECURSIVE assign_fields(_, _, _)
\* Statements i.. of the block: [raised, self]; a missing key raises KeyError,
\* a rate that cannot be converted raises in megabits_to_bits, and either
\* leaves the fields assigned so far.
assign_fields(self, data, i) ==
    IF i > Len(ParseSteps) THEN [raised |-> FALSE, self |-> [self EXCEPT !.status = 1]]
    ELSE LET s == ParseSteps[i] IN
         IF s.key \notin DOMAIN data THEN [raised |-> TRUE, self |-> self]
         ELSE LET v == data[s.key]
                  r1 == [self EXCEPT ![s.field] = v]
                  r2 == IF s.field = "download_mbps"
                        THEN [r1 EXCEPT !.download = megabits_to_bits(v.units)]
                        ELSE IF s.field = "upload_mbps"
                        THEN [r1 EXCEPT !.upload = megabits_to_bits(v.units)]
                        ELSE r1
              IN  IF /\ s.field \in {"download_mbps", "upload_mbps"}
                     /\ megabits_to_bits_raises(v)
                  THEN [raised |-> TRUE, self |-> r1]
                  ELSE assign_fields(r2, data, i + 1)

\* TestResult._parse_results: [raised, self]
parse_results(self, output) ==
    LET parsed == json_loads(output) IN
    IF parsed = <<>> THEN [raised |-> TRUE, self |-> self]
    ELSE LET data == parsed[1] IN
         IF "error" \in DOMAIN data THEN [raised |-> FALSE, self |-> self]
         ELSE IF "version" \in DOMAIN data THEN assign_fields(self, data, 1)
         ELSE [raised |-> FALSE, self |-> self]

\* TestResult._execute_speedtest once the connection test passed:
\* <<output>>, or <<>> for None
execute_speedtest(outcome) ==
    IF outcome.kind = "returned" THEN <<trim_output(outcome.stdout)>>
    ELSE IF outcome.kind = "CalledProcessError"
    THEN IF ~is_json(outcome.stdout) /\ Len(outcome.stdout) > 0
         THEN <<>>   \* logging.error(...); return None
         ELSE <<>>   \* return None
    ELSE <<>>

\* TestResult.run_test on a fresh TestResult(): [raised, self]
run_test(self, outcome) ==
    LET output == execute_speedtest(outcome) IN
    IF output # <<>> /\ output[1] # <<>>
    THEN parse_results(self, output[1])
    ELSE [raised |-> FALSE, self |-> self]

(***************************************************************************)
(* exporter.py: SpeedTest, Metrics                                         *)
(***************************************************************************)

\* Variants of is_cache_expired: expiry at the boundary; no cache at all; a
\* single-flight guard; cache duration 0 read as "never cached".
is_cache_expired_inclusive(now) == now >= cache_until

is_cache_expired_always(now) == now > cache_until \/ now <= cache_until

is_cache_expired_single_flight(now) ==
    /\ now > cache_until
    /\ \A q \in Workers : pc[q] \notin {"create_connection", "check_output"}

is_cache_expired_zero_duration(now) == now > cache_until \/ cache_seconds = 0

\* SpeedTest.is_cache_expired, on the clock value read
is_cache_expired(now) == now > cache_until

\* Metrics.__init__: a Gauge starts at 0, an Info without labels
InitGauges ==
    [server |-> <<>>, jitter |-> 0, ping |-> 0, download_speed |-> 0,
     upload_speed |-> 0, up |-> 0]

\* The statements of Metrics.update_metrics, in order.
GaugeOrder == <<"server", "jitter", "ping", "download_speed", "upload_speed", "up">>

\* The value statement i of update_metrics stores.
gauge_value(r, i) ==
    CASE i = 1 -> <<r.server_city, r.server_region>>
      [] i = 2 -> r.jitter
      [] i = 3 -> r.ping
      [] i = 4 -> r.download
      [] i = 5 -> r.upload
      [] i = 6 -> r.status

\* The gauges after a whole update_metrics(r) that nothing interleaves with.
GaugesOf(r) ==
    [server |-> <<r.server_city, r.server_region>>, jitter |-> r.jitter,
     ping |-> r.ping, download_speed |-> r.download,
     upload_speed |-> r.upload, up |-> r.status]

(***************************************************************************)
(* History (no part of the program).  It is kept only in the runs that     *)
(* serve one request at a time (hist.on): of the /metrics request being    *)
(* served, the clock value its expiry test read (checked), whether it      *)
(* started cfspeedtest (started) and the clock value its update_cache read *)
(* (now, 0 before); of the /metrics request answered last,                 *)
(* how it ended (kind: "hit", "miss", or "fault" for an exception), whether *)
(* it started cfspeedtest (prev_started), the status of its result         *)
(* (status), the gauges its response rendered (body) and cache_until when  *)
(* it ended (until), and the clock value its update_cache read (upd, 0    *)
(* when it did not run update_cache).                                      *)
(***************************************************************************)
NoHistory(on) ==
    [on |-> on, checked |-> 0, started |-> FALSE, now |-> 0, kind |-> "none",
     prev_started |-> FALSE, status |-> 0, body |-> InitGauges, until |-> 0,
     upd |-> 0]

InitProgram ==
    /\ clock = 1
    /\ cache_seconds \in {DefaultCacheFor, MaxCacheSeconds}
    /\ cache_until = 0
    /\ gauges = InitGauges
    /\ pc = [p \in Workers |-> "idle"]
    /\ t = [p \in Workers |-> 0]
    /\ result = [p \in Workers |-> <<>>]
    /\ gi = [p \in Workers |-> 0]

Init == InitProgram /\ hist = NoHistory(FALSE)

InitSeq == InitProgram /\ hist = NoHistory(TRUE)

\* The wall clock is set back (a correction, the end of daylight saving
\* time): datetime.datetime.now() is naive local time.  A step is one unit
\* back, a larger correction is several steps.
SetBack ==
    /\ clock > 1
    /\ clock' = clock - 1
    /\ UNCHANGED <<cache_seconds, cache_until, gauges, pc, t, result, gi, hist>>

\* Time passes.
Tick ==
    /\ clock < MaxClock
    /\ clock' = clock + 1
    /\ UNCHANGED <<cache_seconds, cache_until, gauges, pc, t, result, gi, hist>>

\* GET /metrics reaches update_results -> run_speedtest -> is_cache_expired,
\* which reads datetime.datetime.now().
update_results(p) ==
    /\ pc[p] = "idle"
    /\ pc' = [pc EXCEPT ![p] = "is_cache_expired"]
    /\ t' = [t EXCEPT ![p] = clock]
    /\ hist' = IF hist.on
               THEN [hist EXCEPT !.checked = clock, !.started = FALSE, !.now = 0]
               ELSE hist
    /\ UNCHANGED <<clock, cache_seconds, cache_until, gauges, result, gi>>

\* run_speedtest: the comparison with self.cache_until; then return None, or
\* result = TestResult() and result.run_test() up to the connection test.
run_speedtest(p) ==
    /\ pc[p] = "is_cache_expired"
    /\ IF is_cache_expired(t[p])
       THEN /\ result' = [result EXCEPT ![p] = <<TestResult>>]
            /\ pc' = [pc EXCEPT ![p] = "create_connection"]
       ELSE /\ result' = [result EXCEPT ![p] = <<>>]
            /\ pc' = [pc EXCEPT ![p] = "render"]
    /\ t' = [t EXCEPT ![p] = 0]
    /\ UNCHANGED <<clock, cache_seconds, cache_until, gauges, gi, hist>>

\* _execute_speedtest: socket.create_connection returns or raises OSError;
\* after it subprocess.check_output starts cfspeedtest, or None is returned.
execute_speedtest_start(p, connected) ==
    /\ pc[p] = "create_connection"
    /\ pc' = [pc EXCEPT ![p] = IF connected THEN "check_output" ELSE "update_cache"]
    /\ hist' = IF hist.on THEN [hist EXCEPT !.started = connected] ELSE hist
    /\ UNCHANGED <<clock, cache_seconds, cache_until, gauges, t, result, gi>>

\* check_output ends; the rest of run_test runs on the thread's own object.
execute_speedtest_end(p) ==
    /\ pc[p] = "check_output"
    /\ \E r \in {run_test(result[p][1], outcome) : outcome \in ToolOutcomes} :
       /\ result' = [result EXCEPT ![p] = <<r.self>>]
       /\ pc' = [pc EXCEPT ![p] = IF r.raised THEN "raised" ELSE "update_cache"]
    /\ UNCHANGED <<clock, cache_seconds, cache_until, gauges, t, gi, hist>>

\* update_cache: datetime.datetime.now() is evaluated ...
update_cache_now(p) ==
    /\ pc[p] = "update_cache"
    /\ t' = [t EXCEPT ![p] = clock]
    /\ pc' = [pc EXCEPT ![p] = "store_cache_until"]
    /\ hist' = IF hist.on THEN [hist EXCEPT !.now = clock] ELSE hist
    /\ UNCHANGED <<clock, cache_seconds, cache_until, gauges, result, gi>>

\* ... and the sum is stored in self.cache_until.
update_cache(p) ==
    /\ pc[p] = "store_cache_until"
    /\ cache_until' = t[p] + cache_seconds
    /\ t' = [t EXCEPT ![p] = 0]
    /\ pc' = [pc EXCEPT ![p] = "update_metrics"]
    /\ gi' = [gi EXCEPT ![p] = 1]
    /\ UNCHANGED <<clock, cache_seconds, gauges, result, hist>>

\* One statement of Metrics.update_metrics(result).
update_metrics(p) ==
    /\ pc[p] = "update_metrics"
    /\ gauges' = [gauges EXCEPT ![GaugeOrder[gi[p]]] = gauge_value(result[p][1], gi[p])]
    /\ IF gi[p] < Len(GaugeOrder)
       THEN /\ gi' = [gi EXCEPT ![p] = gi[p] + 1]
            /\ pc' = pc
       ELSE /\ gi' = [gi EXCEPT ![p] = 0]
            /\ pc' = [pc EXCEPT ![p] = "render"]
    /\ UNCHANGED <<clock, cache_seconds, cache_until, t, result, hist>>

\* return make_wsgi_app(): the response renders the gauges.
render(p) ==
    /\ pc[p] = "render"
    /\ hist' = IF hist.on
               THEN [hist EXCEPT !.kind = IF result[p] = <<>> THEN "hit" ELSE "miss",
                                 !.prev_started = hist.started,
                                 !.status = IF result[p] = <<>> THEN 0 ELSE result[p][1].status,
                                 !.body = gauges,
                                 !.until = cache_until,
                                 !.upd = hist.now]
               ELSE hist
    /\ pc' = [pc EXCEPT ![p] = "idle"]
    /\ result' = [result EXCEPT ![p] = <<>>]
    /\ UNCHANGED <<clock, cache_seconds, cache_until, gauges, t, gi>>

\* The exception leaves update_results: the request ends without a rendering.
propagate(p) ==
    /\ pc[p] = "raised"
    /\ hist' = IF hist.on
               THEN [hist EXCEPT !.kind = "fault", !.prev_started = hist.started,
                                 !.status = result[p][1].status,
                                 !.body = InitGauges,
                                 !.until = cache_until,
                                 !.upd = hist.now]
               ELSE hist
    /\ pc' = [pc EXCEPT ![p] = "idle"]
    /\ result' = [result EXCEPT ![p] = <<>>]
    /\ UNCHANGED <<clock, cache_seconds, cache_until, gauges, t, gi>>

\* GET / reaches main_page ...
main_page(p) ==
    /\ pc[p] = "idle"
    /\ pc' = [pc EXCEPT ![p] = "main_page"]
    /\ UNCHANGED <<clock, cache_seconds, cache_until, gauges, t, result, gi, hist>>

\* ... which returns the welcome text.
main_page_return(p) ==
    /\ pc[p] = "main_page"
    /\ pc' = [pc EXCEPT ![p] = "idle"]
    /\ UNCHANGED <<clock, cache_seconds, cache_until, gauges, t, result, gi, hist>>

Step(p) ==
    \/ update_results(p)
    \/ run_speedtest(p)
    \/ \E connected \in BOOLEAN : execute_speedtest_start(p, connected)
    \/ execute_speedtest_end(p)
    \/ update_cache_now(p)
    \/ update_cache(p)
    \/ update_metrics(p)
    \/ render(p)
    \/ propagate(p)
    \/ main_page(p)
    \/ main_page_return(p)

\* The requests are served by NumWorkers threads.
Next == Tick \/ SetBack \/ \E p \in Workers : Step(p)

Spec == Init /\ [][Next]_vars

\* One request at a time: a thread takes up a request only while no other
\* thread is busy.
Alone(p) == \A q \in Workers \ {p} : pc[q] = "idle"

NextSeq ==
    \/ Tick
    \/ SetBack
    \/ \E p \in Workers :
        \/ Alone(p) /\ update_results(p)
        \/ Alone(p) /\ main_page(p)
        \/ run_speedtest(p)
        \/ \E connected \in BOOLEAN : execute_speedtest_start(p, connected)
        \/ execute_speedtest_end(p)
        \/ update_cache_now(p)
        \/ update_cache(p)
        \/ update_metrics(p)
        \/ render(p)
        \/ propagate(p)
        \/ main_page_return(p)

SpecSeq == InitSeq /\ [][NextSeq]_vars

\* Two requests at a time: a thread takes up a request only while at most
\* one other thread is busy.
Paired(p) == \E q \in Workers : \A r \in Workers \ {p, q} : pc[r] = "idle"

NextPair ==
    \/ Tick
    \/ SetBack
    \/ \E p \in Workers :
        \/ Paired(p) /\ update_results(p)
        \/ Paired(p) /\ main_page(p)
        \/ run_speedtest(p)
        \/ \E connected \in BOOLEAN : execute_speedtest_start(p, connected)
        \/ execute_speedtest_end(p)
        \/ update_cache_now(p)
        \/ update_cache(p)
        \/ update_metrics(p)
        \/ render(p)
        \/ propagate(p)
        \/ main_page_return(p)

SpecPair == Init /\ [][NextPair]_vars

(***************************************************************************)
(* Properties                                                              *)
(***************************************************************************)

Idle == \A p \in Workers : pc[p] = "idle"

\* Worker p has decided its /metrics request for the cache-hit path.
Hit(p) == pc[p] = "render" /\ result[p] = <<>>

\* The step is taken by worker p.
Moves(p) == pc'[p] # pc[p] \/ gi'[p] # gi[p]

\* C1: run_test never lets an exception reach its caller, so no /metrics
\* handler is ever left by an exception.
C1_RunNeverRaises == \A p \in Workers : pc[p] # "raised"

\* C2: once a cache-miss request whose measurement failed (its result has
\* status 0) is over, speedtest_up reads 0, whatever it read before.
C2_FailureNeverMasked ==
    (Idle /\ hist.kind \in {"miss", "fault"} /\ hist.status = 0) => gauges.up = 0

\* C3 as stated: a /metrics request that arrives within the window opened by
\* the cache-miss request before it brings the two to exactly one start of
\* cfspeedtest, and renders the gauges the first rendered.
C3_ExactlyOneInvocation ==
    \A p \in Workers :
        (/\ cache_seconds > 0
         /\ hist.kind = "miss"
         /\ hist.checked <= hist.until
         /\ pc[p] = "render")
        => /\ hist.prev_started /\ ~hist.started
           /\ result[p] = <<>>
           /\ gauges = hist.body

\* C3 as amended: a /metrics request that arrives within the window opened by
\* the cache-miss request before it takes the cache-hit path, starts no
\* cfspeedtest and renders the gauges the first rendered; the first started
\* cfspeedtest at most once (not at all when its connection test failed).
C3_Idempotent ==
    \A p \in Workers :
        (/\ cache_seconds > 0
         /\ hist.kind = "miss"
         /\ hist.checked <= hist.until
         /\ pc[p] \notin {"idle", "main_page"})
        => /\ ~hist.started
           /\ pc[p] \in {"is_cache_expired", "render"}
           /\ pc[p] = "render" => (result[p] = <<>> /\ gauges = hist.body)

C3_Witness ==
    \E p \in Workers :
        /\ cache_seconds > 0 /\ hist.kind = "miss" /\ hist.checked <= hist.until
        /\ hist.prev_started /\ hist.body.up = 1
        /\ Hit(p)

\* C4: once a cache-miss request is over, however its measurement went, the
\* cache window has been renewed: the request ran update_cache and
\* cache_until is the clock value read there plus the cache duration.
C4_WindowRefreshed ==
    (Idle /\ hist.kind \in {"miss", "fault"})
    => /\ hist.upd > 0
       /\ cache_until = hist.upd + cache_seconds

\* C5: cache_until never decreases, and only the storing step of update_cache
\* changes it.
C5_ValidUntilMonotonic ==
    [][/\ cache_until' >= cache_until
       /\ cache_until' # cache_until
          => \E p \in Workers : pc[p] = "store_cache_until" /\ Moves(p)]_vars

\* C6: a result with status 0 is the null result: no field of it is set.
C6_NullResult ==
    \A p \in Workers :
        (result[p] # <<>> /\ result[p][1].status = 0) => result[p][1] = TestResult

\* C7: cfspeedtest is started only by a /metrics request that went on to the
\* connection test because its expiry test found the clock value it read
\* later than cache_until; the steps of a
\* request on the cache-hit path and of a request to / start no cfspeedtest
\* and change neither a gauge nor cache_until.
C7_DemandDriven ==
    [][\A p \in Workers :
        /\ (pc'[p] = "check_output" /\ pc[p] # "check_output")
           => pc[p] = "create_connection"
        /\ (pc'[p] = "create_connection" /\ pc[p] # "create_connection")
           => (pc[p] = "is_cache_expired" /\ t[p] > cache_until)
        /\ (/\ Moves(p)
            /\ \/ pc[p] \in {"idle", "main_page"}
               \/ pc[p] = "is_cache_expired" /\ t[p] <= cache_until
               \/ Hit(p))
           => /\ gauges' = gauges
              /\ cache_until' = cache_until
              /\ pc'[p] \notin {"create_connection", "check_output"}]_vars

C7_Witness ==
    \E p, q \in Workers :
        /\ Hit(p) /\ gauges.up = 1 /\ clock <= cache_until
        /\ pc[q] = "main_page"

\* C8 as stated, its last part: when a request ends update_metrics and no
\* other is inside update_metrics, the gauges are those of its result.
C8_LastWriterWins ==
    [][\A p \in Workers :
        (/\ pc[p] = "update_metrics" /\ pc'[p] = "render"
         /\ \A q \in Workers \ {p} : pc[q] # "update_metrics")
        => gauges' = GaugesOf(result[p][1])]_vars

\* C8 as amended: a request whose expiry test finds the cache expired takes
\* the cache-miss path whatever the other requests are doing, so two
\* cfspeedtest runs can be in flight; update_metrics stores the six gauges
\* one statement at a time, each store overwrites that gauge alone with the
\* value of the storing request's result, so each gauge ends with the value
\* stored in it last (and the gauges together may mix the two results).
C8_NoMutualExclusion ==
    [][\A p \in Workers :
        /\ (pc[p] = "is_cache_expired" /\ Moves(p) /\ t[p] > cache_until)
           => pc'[p] = "create_connection"
        /\ (pc[p] = "update_metrics" /\ Moves(p))
           => /\ gauges'[GaugeOrder[gi[p]]] = gauge_value(result[p][1], gi[p])
              /\ \A g \in DOMAIN gauges \ {GaugeOrder[gi[p]]} : gauges'[g] = gauges[g]]_vars

\* Two requests that both went through a cfspeedtest run are inside
\* update_metrics with different results, and the gauges are those of neither.
C8_Witness ==
    \E p, q \in Workers :
        /\ pc[p] = "update_metrics" /\ pc[q] = "update_metrics"
        /\ result[p][1].status = 1 /\ result[q][1].status = 0
        /\ gauges.up = 1 /\ gauges.server = <<"", "">>

\* C9: no request takes the cache-hit path while another request has moved
\* cache_until forward and the gauges are not yet those of its result.
C9_GaugesBeforeWindow ==
    [][\A p \in Workers :
        (pc[p] = "is_cache_expired" /\ Moves(p) /\ t[p] <= cache_until)
        => \A q \in Workers \ {p} :
             pc[q] = "update_metrics" => gauges = GaugesOf(result[q][1])]_vars

\* C10 as stated: with cache duration 0 no /metrics request takes the
\* cache-hit path.
C10_AlwaysRemeasure == cache_seconds = 0 => \A p \in Workers : ~Hit(p)

\* C10 as amended: with cache duration 0, a /metrics request takes the
\* cache-miss path exactly when the clock value it read is later than
\* cache_until; a request that reads the clock value at which the update
\* before it set cache_until (or, the clock set back, an earlier one) takes
\* the cache-hit path.
C10_ZeroCacheRemeasures ==
    cache_seconds = 0 =>
        \A p \in Workers :
            pc[p] \notin {"idle", "main_page", "is_cache_expired"}
            => (result[p] # <<>> <=> hist.checked > hist.until)

C10_Witness ==
    \E p \in Workers :
        /\ cache_seconds = 0 /\ hist.kind = "miss" /\ hist.until > 0
        /\ hist.checked > hist.until
        /\ pc[p] = "check_output"

====
